---- MODULE Spec2Model ----
(***************************************************************************)
(* Model of pox/parser/parser.py: the recursive-descent parser of pox.     *)
(*                                                                         *)
(* A token is identified by its 0-based index in `tokens`; tokens[i + 1]   *)
(* is the type of token i.  The cursor `current` is 0-based like the       *)
(* Python attribute.  Every production is an operator from a cursor        *)
(* position to a result record [ok, node, pos, e]: ok = FALSE is a raised  *)
(* ParseError e with the cursor left at pos.  The driver loop of parse and *)
(* the loop of synchronize are stepped by actions.                         *)
(***************************************************************************)
EXTENDS Integers, Sequences, FiniteSets, TLC

VARIABLES
    tokens,      \* Parser.tokens: sequence of token types, last one EOF
    current,     \* Parser.current: 0-based cursor
    statements,  \* the list built by parse
    errors,      \* what pox.report_error has received, in order
    err,         \* the ParseError caught by parse, pending its report
    raisedAt,    \* value of current when the pending ParseError was caught
    ret,         \* token returned by the most recent advance() call
    pc           \* position of parse: loop, sync, sync_loop, report, done

vars == <<tokens, current, statements, errors, err, raisedAt, ret, pc>>

-----------------------------------------------------------------------------
(* Token types (pox.scanner.TokenType) used by the parser.                 *)

EOF == "EOF"
SEMICOLON == "SEMICOLON"
LEFT_PAREN == "LEFT_PAREN"
RIGHT_PAREN == "RIGHT_PAREN"
LEFT_BRACE == "LEFT_BRACE"
RIGHT_BRACE == "RIGHT_BRACE"
EQUAL == "EQUAL"
BANG == "BANG"
BANG_EQUAL == "BANG_EQUAL"
EQUAL_EQUAL == "EQUAL_EQUAL"
GREATER == "GREATER"
GREATER_EQUAL == "GREATER_EQUAL"
LESS == "LESS"
LESS_EQUAL == "LESS_EQUAL"
MINUS == "MINUS"
PLUS == "PLUS"
SLASH == "SLASH"
STAR == "STAR"
NIL == "NIL"
TRUE_ == "TRUE"
FALSE_ == "FALSE"
IDENTIFIER == "IDENTIFIER"
NUMBER == "NUMBER"
STRING_ == "STRING"
VAR == "VAR"
PRINT == "PRINT"
IF_ == "IF"
FOR == "FOR"
FUN == "FUN"
WHILE == "WHILE"
CLASS == "CLASS"
RETURN == "RETURN"

SYNC_TOKENS == {IF_, FOR, VAR, FUN, PRINT, WHILE, CLASS, RETURN}

-----------------------------------------------------------------------------
(* AST nodes (pox.parser.exprs, pox.parser.stmts) and Python's None.       *)

NoneNode == [k |-> "None"]
PyValue(c, i) == [c |-> c, i |-> i]
Literal(v) == [k |-> "Literal", v |-> v]
Variable(name) == [k |-> "Variable", name |-> name]
Grouping(expr) == [k |-> "Grouping", expr |-> expr]
Unary(op, right) == [k |-> "Unary", op |-> op, right |-> right]
Binary(left, op, right) == [k |-> "Binary", left |-> left, op |-> op, right |-> right]
Assign(name, value) == [k |-> "Assign", name |-> name, value |-> value]
Expression(expr) == [k |-> "Expression", expr |-> expr]
PrintStmt(expr) == [k |-> "Print", expr |-> expr]
Var(name, init) == [k |-> "Var", name |-> name, init |-> init]
Block(stmts) == [k |-> "Block", stmts |-> stmts]

ParseError(tok, message) == [msg |-> message, tok |-> tok]
NoError == [msg |-> "", tok |-> -1]

Ok(n, p) == [ok |-> TRUE, node |-> n, pos |-> p, e |-> NoError]
Raise(e, p) == [ok |-> FALSE, node |-> NoneNode, pos |-> p, e |-> e]

-----------------------------------------------------------------------------
(* Token cursor.                                                           *)

peek(p) == tokens[p + 1]

is_at_end(p) == peek(p) = EOF

\* tokens[current - 1]; Python's index -1 is the last element
previous(p) == IF p = 0 THEN Len(tokens) - 1 ELSE p - 1

\* variant: advance() without the is_at_end() guard
advance_unguarded(p) == [pos |-> p + 1, tok |-> previous(p + 1)]

\* variant: advance() returning peek() instead of previous()
advance_peek(p) ==
    LET np == IF ~is_at_end(p) THEN p + 1 ELSE p
    IN  [pos |-> np, tok |-> np]

advance(p) ==
    LET np == IF ~is_at_end(p) THEN p + 1 ELSE p
    IN  [pos |-> np, tok |-> previous(np)]

check(p, t) == IF is_at_end(p) THEN FALSE ELSE peek(p) = t

match(p, types) ==
    IF \E i \in 1..Len(types) : check(p, types[i])
    THEN [m |-> TRUE, pos |-> advance(p).pos]
    ELSE [m |-> FALSE, pos |-> p]

\* build_parse_error(self, message): the error of the parser whose cursor
\* is p, with the current token
error(p, message) == ParseError(p, message)

consume(p, t, message) ==
    IF check(p, t)
    THEN [ok |-> TRUE, tok |-> advance(p).tok, pos |-> advance(p).pos, e |-> NoError]
    ELSE [ok |-> FALSE, tok |-> -1, pos |-> p, e |-> error(p, message)]

-----------------------------------------------------------------------------
(* Grammar productions.                                                    *)

RECURSIVE declaration(_), statement(_), block_statement(_), block_loop(_, _)
RECURSIVE expression(_), assignment(_)
RECURSIVE equality(_), equality_loop(_, _), comparison(_), comparison_loop(_, _)
RECURSIVE term(_), term_loop(_, _), factor(_), factor_loop(_, _)
RECURSIVE unary(_), primary(_)

\* a production ends with consume(): it returns node when consume returned
\* and raises the ParseError of consume otherwise
terminated(node, c) == IF c.ok THEN Ok(node, c.pos) ELSE Raise(c.e, c.pos)

\* lines 186-188: after expression() returned inside the parentheses
primary_group(r) ==
    IF ~r.ok THEN r
    ELSE terminated(Grouping(r.node),
                    consume(r.pos, RIGHT_PAREN, "expected ')' after expression"))

\* lines 176-188; a call that matches nothing falls off the end of the
\* function and returns None without raising
primary(p) ==
    IF match(p, <<NIL>>).m THEN Ok(Literal(PyValue("None", -1)), match(p, <<NIL>>).pos)
    ELSE IF match(p, <<TRUE_>>).m
         THEN Ok(Literal(PyValue("True", -1)), match(p, <<TRUE_>>).pos)
    ELSE IF match(p, <<FALSE_>>).m
         THEN Ok(Literal(PyValue("False", -1)), match(p, <<FALSE_>>).pos)
    ELSE IF match(p, <<IDENTIFIER>>).m
         THEN LET q == match(p, <<IDENTIFIER>>).pos IN Ok(Variable(previous(q)), q)
    ELSE IF match(p, <<NUMBER, STRING_>>).m
         THEN LET q == match(p, <<NUMBER, STRING_>>).pos
              IN  Ok(Literal(PyValue("literal", previous(q))), q)
    ELSE IF match(p, <<LEFT_PAREN>>).m
         THEN primary_group(expression(match(p, <<LEFT_PAREN>>).pos))
    ELSE Ok(NoneNode, p)

\* line 172: Unary(self.previous(), self.unary()) once unary() returned r
unary_node(op, r) == IF r.ok THEN Ok(Unary(op, r.node), r.pos) ELSE r

unary(p) ==
    LET m == match(p, <<BANG, MINUS>>)
    IN  IF m.m THEN unary_node(previous(m.pos), unary(m.pos)) ELSE primary(p)

\* line 166: expr = Binary(expr, self.previous(), <right operand r>),
\* then the loop of factor goes on
factor_fold(expr, op, r) ==
    IF r.ok THEN factor_loop(Binary(expr, op, r.node), r.pos) ELSE r

\* line 163: expr = <first operand r>, then the loop of factor starts
factor_first(r) == IF r.ok THEN factor_loop(r.node, r.pos) ELSE r

\* variant: the right operand of '*' and '/' parsed by unary(), which nests
\* a chain to the left
factor_loop_left(expr, p) ==
    LET m == match(p, <<SLASH, STAR>>)
    IN  IF m.m THEN factor_fold(expr, previous(m.pos), unary(m.pos))
        ELSE Ok(expr, p)

\* lines 165-168: the while loop of factor; expr is the node built so far
factor_loop(expr, p) ==
    LET m == match(p, <<SLASH, STAR>>)
    IN  IF m.m THEN factor_fold(expr, previous(m.pos), factor(m.pos))
        ELSE Ok(expr, p)

factor(p) == factor_first(unary(p))

\* line 158: expr = Binary(expr, self.previous(), <right operand r>),
\* then the loop of term goes on
term_fold(expr, op, r) ==
    IF r.ok THEN term_loop(Binary(expr, op, r.node), r.pos) ELSE r

\* line 155: expr = <first operand r>, then the loop of term starts
term_first(r) == IF r.ok THEN term_loop(r.node, r.pos) ELSE r

\* variant: the right operand of '+' and '-' parsed by unary(), skipping
\* the factor level
term_loop_unary(expr, p) ==
    LET m == match(p, <<MINUS, PLUS>>)
    IN  IF m.m THEN term_fold(expr, previous(m.pos), unary(m.pos))
        ELSE Ok(expr, p)

\* lines 157-160: the while loop of term
term_loop(expr, p) ==
    LET m == match(p, <<MINUS, PLUS>>)
    IN  IF m.m THEN term_fold(expr, previous(m.pos), factor(m.pos))
        ELSE Ok(expr, p)

term(p) == term_first(factor(p))

\* line 150: expr = Binary(expr, self.previous(), <right operand r>),
\* then the loop of comparison goes on
comparison_fold(expr, op, r) ==
    IF r.ok THEN comparison_loop(Binary(expr, op, r.node), r.pos) ELSE r

\* line 145: expr = <first operand r>, then the loop of comparison starts
comparison_first(r) == IF r.ok THEN comparison_loop(r.node, r.pos) ELSE r

\* lines 147-152: the while loop of comparison
comparison_loop(expr, p) ==
    LET m == match(p, <<GREATER, GREATER_EQUAL, LESS, LESS_EQUAL>>)
    IN  IF m.m THEN comparison_fold(expr, previous(m.pos), term(m.pos))
        ELSE Ok(expr, p)

comparison(p) == comparison_first(term(p))

\* line 140: expr = Binary(expr, self.previous(), <right operand r>),
\* then the loop of equality goes on
equality_fold(expr, op, r) ==
    IF r.ok THEN equality_loop(Binary(expr, op, r.node), r.pos) ELSE r

\* line 137: expr = <first operand r>, then the loop of equality starts
equality_first(r) == IF r.ok THEN equality_loop(r.node, r.pos) ELSE r

\* lines 139-142: the while loop of equality
equality_loop(expr, p) ==
    LET m == match(p, <<BANG_EQUAL, EQUAL_EQUAL>>)
    IN  IF m.m THEN equality_fold(expr, previous(m.pos), comparison(m.pos))
        ELSE Ok(expr, p)

equality(p) == equality_first(comparison(p))

\* variant: no isinstance check, an Assign node for any left-hand side
assignment_target_unchecked(expr, equals, r) ==
    IF ~r.ok THEN r
    ELSE Ok(Assign(IF expr.k = "Variable" THEN expr.name ELSE equals, r.node), r.pos)

\* lines 129-132: after the right-hand side returned r
assignment_target(expr, equals, r) ==
    IF ~r.ok THEN r
    ELSE IF expr.k = "Variable" THEN Ok(Assign(expr.name, r.node), r.pos)
    ELSE Raise(ParseError(equals, "invalid assign target"), r.pos)

\* lines 125-134: after equality() returned l
assignment_rest(l) ==
    IF ~l.ok THEN l
    ELSE LET m == match(l.pos, <<EQUAL>>)
         IN  IF m.m
             THEN assignment_target(l.node, previous(m.pos), assignment(m.pos))
             ELSE l

assignment(p) == assignment_rest(equality(p))

expression(p) == assignment(p)

\* the terminating ';' of a print or expression statement whose value is v
statement_end(v, node, message) ==
    IF ~v.ok THEN v ELSE terminated(node, consume(v.pos, SEMICOLON, message))

expression_statement_end(v) ==
    statement_end(v, Expression(v.node), "expect ';' after expression")

expression_statement(p) == expression_statement_end(expression(p))

print_statement_end(v) == statement_end(v, PrintStmt(v.node), "expect ';' after value")

print_statement(p) == print_statement_end(expression(p))

\* line 104: statements.append(<declaration d>), then the loop goes on
block_append(stmts, d) ==
    IF d.ok THEN block_loop(Append(stmts, d.node), d.pos) ELSE d

\* variant: a block that EOF ends is returned without its '}'
block_loop_lenient(stmts, p) ==
    IF ~check(p, RIGHT_BRACE) /\ ~is_at_end(p)
    THEN block_append(stmts, declaration(p))
    ELSE IF is_at_end(p) THEN Ok(Block(stmts), p)
    ELSE terminated(Block(stmts), consume(p, RIGHT_BRACE, "expect '}' after"))

\* lines 103-107: the while loop of block_statement and what follows it
block_loop(stmts, p) ==
    IF ~check(p, RIGHT_BRACE) /\ ~is_at_end(p)
    THEN block_append(stmts, declaration(p))
    ELSE terminated(Block(stmts), consume(p, RIGHT_BRACE, "expect '}' after"))

block_statement(p) == block_loop(<<>>, p)

statement(p) ==
    IF match(p, <<PRINT>>).m THEN print_statement(match(p, <<PRINT>>).pos)
    ELSE IF match(p, <<LEFT_BRACE>>).m THEN block_statement(match(p, <<LEFT_BRACE>>).pos)
    ELSE expression_statement(p)

\* lines 91-92: after the optional initializer
var_declaration_end(name, init) ==
    IF ~init.ok THEN init
    ELSE terminated(Var(name, init.node),
                    consume(init.pos, SEMICOLON, "expect ';' after variable declaration"))

\* lines 86-89: after consume(IDENTIFIER) returned name
var_declaration_init(name) ==
    IF ~name.ok THEN Raise(name.e, name.pos)
    ELSE LET m == match(name.pos, <<EQUAL>>)
         IN  var_declaration_end(name.tok,
                                 IF m.m THEN expression(m.pos) ELSE Ok(NoneNode, m.pos))

var_declaration(p) ==
    var_declaration_init(consume(p, IDENTIFIER, "expect variable name"))

declaration(p) ==
    IF match(p, <<VAR>>).m THEN var_declaration(match(p, <<VAR>>).pos)
    ELSE statement(p)

-----------------------------------------------------------------------------
(* Inputs: token sequences terminated by exactly one EOF token.            *)

MaxLen == 3
MaxStmts == 2
MaxFollow == 1

Alphabet ==
    {SEMICOLON, VAR, PRINT, LEFT_BRACE, RIGHT_BRACE, EQUAL, IDENTIFIER, NUMBER,
     LEFT_PAREN, RIGHT_PAREN, MINUS, STAR, RETURN, BANG, PLUS, EQUAL_EQUAL, NIL}

RECURSIVE SeqsUpTo(_, _)
SeqsUpTo(S, n) ==
    IF n = 0 THEN {<<>>}
    ELSE {<<>>} \cup {Append(s, x) : s \in SeqsUpTo(S, n - 1), x \in S}

RECURSIVE Flatten(_)
Flatten(ss) == IF ss = <<>> THEN <<>> ELSE Head(ss) \o Flatten(Tail(ss))

\* all token sequences of at most MaxLen tokens over Alphabet
ShortInputs == {s \o <<EOF>> : s \in SeqsUpTo(Alphabet, MaxLen)}

\* well-formed statements: print 1;  var a = 1;
Well ==
    {<<PRINT, NUMBER, SEMICOLON>>,
     <<VAR, IDENTIFIER, EQUAL, NUMBER, SEMICOLON>>}

\* malformed statements: var = ;  1 = 2;  print 1  print (1;
Malformed ==
    {<<VAR, EQUAL, SEMICOLON>>,
     <<NUMBER, EQUAL, NUMBER, SEMICOLON>>,
     <<PRINT, NUMBER>>,
     <<PRINT, LEFT_PAREN, NUMBER, SEMICOLON>>}

\* statements and fragments of statements, concatenated in any order
Fragments ==
    Well \cup Malformed \cup
    {<<VAR, IDENTIFIER, SEMICOLON>>,
     <<IDENTIFIER, EQUAL, IDENTIFIER, EQUAL, NUMBER, SEMICOLON>>,
     <<NUMBER, PLUS, SEMICOLON>>,
     <<BANG, NIL, EQUAL_EQUAL, STRING_, SEMICOLON>>,
     <<LEFT_BRACE>>,
     <<RIGHT_BRACE>>}

StmtInputs == {Flatten(ss) \o <<EOF>> : ss \in SeqsUpTo(Fragments, MaxStmts)}

Operands == {NUMBER, IDENTIFIER, STRING_, NIL, TRUE_, FALSE_}
EqualityOps == {BANG_EQUAL, EQUAL_EQUAL}
ComparisonOps == {GREATER, GREATER_EQUAL, LESS, LESS_EQUAL}
TermOps == {MINUS, PLUS}
FactorOps == {SLASH, STAR}
BinaryOps == EqualityOps \cup ComparisonOps \cup TermOps \cup FactorOps
UnaryOps == {BANG, MINUS}

\* a op1 b op2 c ;
ChainInputs ==
    {<<a, op1, b, op2, c, SEMICOLON, EOF>> :
        a \in Operands, b \in {NUMBER, IDENTIFIER}, c \in Operands,
        op1 \in BinaryOps, op2 \in BinaryOps}

\* u a op b ;
UnaryInputs ==
    {<<u, a, op, b, SEMICOLON, EOF>> :
        u \in UnaryOps, a \in Operands, op \in BinaryOps, b \in Operands}

\* x = y = v ;
AssignChainInputs ==
    {<<IDENTIFIER, EQUAL, IDENTIFIER, EQUAL, v, SEMICOLON, EOF>> : v \in Operands}

\* the node of the well-formed statement w whose first token has index o
WellNode(w, o) ==
    IF w[1] = PRINT THEN PrintStmt(Literal(PyValue("literal", o + 1)))
    ELSE Var(o + 1, Literal(PyValue("literal", o + 3)))

RECURSIVE WellNodes(_, _)
WellNodes(ws, o) ==
    IF ws = <<>> THEN <<>>
    ELSE <<WellNode(Head(ws), o)>> \o WellNodes(Tail(ws), o + Len(Head(ws)))

Follows == SeqsUpTo(Well, MaxFollow)

\* left-hand sides that are no Variable: literal, grouping, unary, binary
BadTargets ==
    {<<NUMBER>>, <<LEFT_PAREN, IDENTIFIER, RIGHT_PAREN>>, <<MINUS, IDENTIFIER>>,
     <<NUMBER, PLUS, NUMBER>>}

\* right-hand sides that parse without a ParseError
GoodValues == {<<NUMBER>>, <<IDENTIFIER, STAR, NUMBER>>, <<IDENTIFIER, EQUAL, NUMBER>>}

\* a right-hand side that is an invalid assignment itself: 2 = 3
BadValues == {<<NUMBER, EQUAL, NUMBER>>}

\* L = R ; followed by the well-formed statements ws.  eq is the index of
\* the first '=', inner the index of the rightmost '=' whose own left-hand
\* side is no Variable, rest the nodes of ws
AssignCase(L, R, ws) ==
    [toks |-> L \o <<EQUAL>> \o R \o <<SEMICOLON>> \o Flatten(ws) \o <<EOF>>,
     eq |-> Len(L),
     inner |-> IF R \in BadValues THEN Len(L) + 2 ELSE Len(L),
     rest |-> WellNodes(ws, Len(L) + Len(R) + 2)]

GoodAssignCases == {AssignCase(L, R, ws) : L \in BadTargets, R \in GoodValues, ws \in Follows}
BadAssignCases == {AssignCase(L, R, ws) : L \in BadTargets, R \in BadValues, ws \in Follows}
AssignCases == GoodAssignCases \cup BadAssignCases

\* exactly one malformed statement m, at top level or inside a block, among
\* well-formed ones; after holds the nodes of the top-level statements that
\* follow it
TopCase(pre, m, post) ==
    [toks |-> Flatten(pre) \o m \o Flatten(post) \o <<EOF>>,
     after |-> WellNodes(post, Len(Flatten(pre)) + Len(m))]

NestedCase(pre, m, post) ==
    [toks |-> <<LEFT_BRACE>> \o Flatten(pre) \o m \o <<RIGHT_BRACE>>
              \o Flatten(post) \o <<EOF>>,
     after |-> WellNodes(post, Len(Flatten(pre)) + Len(m) + 2)]

MistakeCases ==
    {TopCase(pre, m, post) : pre \in Follows, m \in Malformed, post \in Follows}
    \cup {NestedCase(pre, m, post) : pre \in Follows, m \in Malformed, post \in Follows}

Inputs ==
    ShortInputs \cup StmtInputs \cup ChainInputs \cup UnaryInputs \cup AssignChainInputs
    \cup {c.toks : c \in AssignCases} \cup {c.toks : c \in MistakeCases}

-----------------------------------------------------------------------------
(* Parser.parse and Parser.synchronize.                                    *)

Init ==
    /\ tokens \in Inputs
    /\ current = 0
    /\ statements = <<>>
    /\ errors = <<>>
    /\ err = NoError
    /\ raisedAt = -1
    /\ ret = -1
    /\ pc = "loop"

\* the last advance() made by a production returned the token before the cursor
last_advance(from, to) == IF to > from THEN previous(to) ELSE ret

\* lines 69-71: declaration() returns d and its node is appended
append(d) ==
    /\ d.ok
    /\ statements' = Append(statements, d.node)
    /\ current' = d.pos
    /\ ret' = last_advance(current, d.pos)
    /\ UNCHANGED <<tokens, errors, err, raisedAt, pc>>

parse_append ==
    /\ pc = "loop"
    /\ ~is_at_end(current)
    /\ append(declaration(current))

\* lines 70-72: declaration() raises d.e and parse catches it; the cursor
\* stays where the production left it
except(d) ==
    /\ ~d.ok
    /\ err' = d.e
    /\ current' = d.pos
    /\ raisedAt' = d.pos
    /\ ret' = last_advance(current, d.pos)
    /\ pc' = "sync"
    /\ UNCHANGED <<tokens, statements, errors>>

parse_except ==
    /\ pc = "loop"
    /\ ~is_at_end(current)
    /\ except(declaration(current))

\* lines 60-61: the previous token ends a statement or the current one
\* starts one
sync_point(p) ==
    \/ peek(previous(p)) = SEMICOLON
    \/ peek(p) \in SYNC_TOKENS

\* variant: synchronize without its first advance()
synchronize_first_skipped ==
    /\ pc = "sync"
    /\ pc' = "sync_loop"
    /\ UNCHANGED <<tokens, current, statements, errors, err, raisedAt, ret>>

\* variant: the first advance() made only when the cursor is at no
\* statement boundary
synchronize_first_guarded ==
    /\ pc = "sync"
    /\ current' = IF sync_point(current) THEN current ELSE advance(current).pos
    /\ ret' = IF sync_point(current) THEN ret ELSE advance(current).tok
    /\ pc' = "sync_loop"
    /\ UNCHANGED <<tokens, statements, errors, err, raisedAt>>

\* line 57: the unconditional advance()
synchronize_first ==
    /\ pc = "sync"
    /\ current' = advance(current).pos
    /\ ret' = advance(current).tok
    /\ pc' = "sync_loop"
    /\ UNCHANGED <<tokens, statements, errors, err, raisedAt>>

\* lines 59-62: the loop ends at EOF or returns at a statement boundary
synchronize_return ==
    /\ pc = "sync_loop"
    /\ is_at_end(current) \/ sync_point(current)
    /\ pc' = "report"
    /\ UNCHANGED <<tokens, current, statements, errors, err, raisedAt, ret>>

\* line 64: advance() inside the loop
synchronize_advance ==
    /\ pc = "sync_loop"
    /\ ~is_at_end(current)
    /\ ~sync_point(current)
    /\ current' = advance(current).pos
    /\ ret' = advance(current).tok
    /\ UNCHANGED <<tokens, statements, errors, err, raisedAt, pc>>

\* line 74: pox.report_error(err)
report_error ==
    /\ pc = "report"
    /\ errors' = Append(errors, err)
    /\ err' = NoError
    /\ pc' = "loop"
    /\ UNCHANGED <<tokens, current, statements, raisedAt, ret>>

\* lines 69, 76: the loop ends at EOF and parse returns statements
parse_return ==
    /\ pc = "loop"
    /\ is_at_end(current)
    /\ pc' = "done"
    /\ UNCHANGED <<tokens, current, statements, errors, err, raisedAt, ret>>

Next ==
    \/ parse_append
    \/ parse_except
    \/ synchronize_first
    \/ synchronize_return
    \/ synchronize_advance
    \/ report_error
    \/ parse_return

Spec == Init /\ [][Next]_vars

-----------------------------------------------------------------------------
(* Properties.                                                             *)

EofIdx == Len(tokens) - 1

Done == pc = "done"

\* tokens before the EOF token that the cursor has not passed yet
Remaining == EofIdx - current

\* a natural number that every step of parse and synchronize decreases:
\* the tokens left weigh more than the place in the loop; within one round
\* of the loop the order is sync_loop, report, loop, sync, and the first
\* advance() of synchronize passes a token unless the cursor is on EOF
Variant ==
    CASE pc = "done" -> 0
      [] pc = "sync" -> IF Remaining = 0 THEN 5 ELSE 5 * Remaining + 1
      [] pc = "loop" -> 5 * Remaining + 2
      [] pc = "report" -> 5 * Remaining + 3
      [] pc = "sync_loop" -> 5 * Remaining + 4

\* C1: for every token sequence that ends in exactly one EOF token, parse
\* terminates: until parse has returned a step can always be taken, and
\* every step of parse, block_statement and synchronize decreases a natural
\* number, so no run loops and the driver reaches is_at_end() and returns.
C1_ParseTerminates ==
    /\ [](Variant \in Nat)
    /\ [](Done \/ pc \in {"loop", "sync", "sync_loop", "report"})
    /\ [][Variant' < Variant]_vars

\* parse has returned after appending a statement and recovering from an error
C1_Witness == Done /\ statements # <<>> /\ errors # <<>>

\* an expression, operand, grouping content or statement value of n is absent
RECURSIVE Absent(_)
Absent(n) ==
    CASE n.k = "None" -> TRUE
      [] n.k \in {"Literal", "Variable"} -> FALSE
      [] n.k \in {"Grouping", "Expression", "Print"} -> Absent(n.expr)
      [] n.k = "Unary" -> Absent(n.right)
      [] n.k = "Binary" -> Absent(n.left) \/ Absent(n.right)
      [] n.k = "Assign" -> Absent(n.value)
      [] n.k = "Var" -> n.init.k # "None" /\ Absent(n.init)
      [] n.k = "Block" -> \E i \in 1..Len(n.stmts) : Absent(n.stmts[i])

\* ;   print ;   1 + ;   ( ) ;
NoExpressionInputs ==
    {<<SEMICOLON, EOF>>, <<PRINT, SEMICOLON, EOF>>, <<NUMBER, PLUS, SEMICOLON, EOF>>,
     <<LEFT_PAREN, RIGHT_PAREN, SEMICOLON, EOF>>}

\* C2: when an expression is required and the current token starts no
\* primary production a ParseError is reported, so parse never appends a
\* statement node with an absent expression; the inputs ';', 'print ;',
\* '1 + ;' and '( ) ;' each yield a diagnostic and no statement node.
C2_ExpectExpression ==
    /\ \A i \in 1..Len(statements) : ~Absent(statements[i])
    /\ (Done /\ tokens \in NoExpressionInputs) => (errors # <<>> /\ statements = <<>>)

\* the last Len(s) statements returned are s
EndsWith(s) ==
    /\ Len(statements) >= Len(s)
    /\ SubSeq(statements, Len(statements) - Len(s) + 1, Len(statements)) = s

\* C3: for every input in which exactly one statement is malformed, at top
\* level or nested inside a block, parse reports exactly one error and every
\* well-formed top-level statement after the malformed one is returned.
C3_SingleDiagnostic ==
    Done => \A c \in MistakeCases :
                tokens = c.toks => (Len(errors) = 1 /\ EndsWith(c.after))

\* C4: the cursor is always a valid index that is at most the index of the
\* EOF token, and no step ever decreases it.
C4_CursorBounded ==
    /\ [](current \in 0..EofIdx)
    /\ [][current' >= current]_vars

\* synchronize called advance() with the cursor on EOF and the cursor stayed
C4_Witness == pc = "sync_loop" /\ raisedAt = EofIdx /\ current = EofIdx

\* a step that is one call of advance() by synchronize
AdvanceCall == pc \in {"sync", "sync_loop"} /\ pc' = "sync_loop"

\* C5 as stated: advance() at EOF leaves the cursor unchanged and returns the
\* EOF token; elsewhere it returns the token that was current and moves the
\* cursor forward by exactly one.
C5_AdvanceReturnsEof ==
    [][AdvanceCall =>
        IF is_at_end(current)
        THEN current' = current /\ ret' = EofIdx
        ELSE current' = current + 1 /\ ret' = current]_vars

\* C5 amended: advance() at EOF leaves the cursor unchanged and returns
\* previous(), the token before the EOF token; elsewhere it returns the
\* token that was current and moves the cursor forward by exactly one.
C5_AdvanceReturnsPrevious ==
    [][AdvanceCall =>
        IF is_at_end(current)
        THEN current' = current /\ ret' = previous(current)
        ELSE current' = current + 1 /\ ret' = current]_vars

\* advance() was called at EOF and returned the token before EOF
C5_Witness ==
    /\ pc = "sync_loop"
    /\ raisedAt = EofIdx
    /\ current = EofIdx
    /\ ret = EofIdx - 1

\* the report and the statements of an invalid assignment: one error with
\* the '=' token eq, and the statements after the ';' returned
AssignReport(eq, rest) ==
    /\ errors = <<ParseError(eq, "invalid assign target")>>
    /\ statements = rest

\* C6 as stated: an '=' after a left-hand side that is no Variable gives no
\* Assign node, exactly one 'invalid assign target' error carrying that '='
\* token, and the well-formed statements after the ';' are still returned.
C6_InvalidTargetReported ==
    Done => \A c \in AssignCases : tokens = c.toks => AssignReport(c.eq, c.rest)

\* C6 amended: the same, provided the right-hand side of that '=' parses
\* without a ParseError of its own; when the right-hand side is itself an
\* invalid assignment (1 = 2 = 3;) the one error carries the rightmost
\* offending '=' token.
C6_InnermostTargetReported ==
    Done => \A c \in AssignCases : tokens = c.toks => AssignReport(c.inner, c.rest)

\* 1 = 2; print 1; was parsed: one error and the Print node
C6_Witness ==
    /\ Done
    /\ tokens = <<NUMBER, EQUAL, NUMBER, SEMICOLON, PRINT, NUMBER, SEMICOLON, EOF>>
    /\ Len(errors) = 1
    /\ Len(statements) = 1

\* the node primary() is to build for the operand token i
Operand(i) ==
    CASE tokens[i + 1] = IDENTIFIER -> Variable(i)
      [] tokens[i + 1] \in {NUMBER, STRING_} -> Literal(PyValue("literal", i))
      [] tokens[i + 1] = NIL -> Literal(PyValue("None", -1))
      [] tokens[i + 1] = TRUE_ -> Literal(PyValue("True", -1))
      [] tokens[i + 1] = FALSE_ -> Literal(PyValue("False", -1))

\* the rung of the precedence ladder of a binary operator
Level(op) ==
    CASE op \in EqualityOps -> 1
      [] op \in ComparisonOps -> 2
      [] op \in TermOps -> 3
      [] op \in FactorOps -> 4

RightNested == Binary(Operand(0), 1, Binary(Operand(2), 3, Operand(4)))
LeftNested == Binary(Binary(Operand(0), 1, Operand(2)), 3, Operand(4))

Returned(expr) == Done => (errors = <<>> /\ statements = <<Expression(expr)>>)

\* C7: precedence follows equality < comparison < term < factor < unary:
\* 'a op1 b op2 c' is Binary(a, op1, Binary(b, op2, c)) when op2 binds
\* tighter than op1 and Binary(Binary(a, op1, b), op2, c) when op1 binds
\* tighter; a unary operator binds tighter than any binary one.
C7_Precedence ==
    /\ (tokens \in ChainInputs /\ Level(tokens[2]) < Level(tokens[4]))
           => Returned(RightNested)
    /\ (tokens \in ChainInputs /\ Level(tokens[2]) > Level(tokens[4]))
           => Returned(LeftNested)
    /\ tokens \in UnaryInputs
           => Returned(Binary(Unary(0, Operand(1)), 2, Operand(3)))

\* 1 + 2 * 3; was parsed
C7_Witness ==
    /\ Done
    /\ tokens = <<NUMBER, PLUS, NUMBER, STAR, NUMBER, SEMICOLON, EOF>>
    /\ statements = <<Expression(RightNested)>>

\* C8: chains of one level nest to the left at the equality, comparison and
\* term levels and to the right at the factor level; assignment nests to
\* the right.
C8_Associativity ==
    /\ (tokens \in ChainInputs /\ Level(tokens[2]) = Level(tokens[4]))
           => Returned(IF Level(tokens[2]) = 4 THEN RightNested ELSE LeftNested)
    /\ tokens \in AssignChainInputs
           => Returned(Assign(0, Assign(2, Operand(4))))

\* 2 * 3 / 4; was parsed to the right
C8_Witness ==
    /\ Done
    /\ tokens = <<NUMBER, STAR, NUMBER, SLASH, NUMBER, SEMICOLON, EOF>>
    /\ statements = <<Expression(RightNested)>>

\* no '}' closes the block that is open with depth open blocks at token i
RECURSIVE Unclosed(_, _)
Unclosed(i, depth) ==
    IF depth = 0 THEN FALSE
    ELSE IF tokens[i + 1] = EOF THEN TRUE
    ELSE IF tokens[i + 1] = LEFT_BRACE THEN Unclosed(i + 1, depth + 1)
    ELSE IF tokens[i + 1] = RIGHT_BRACE THEN Unclosed(i + 1, depth - 1)
    ELSE Unclosed(i + 1, depth)

\* the first statement of the input is a block that EOF leaves open
UnterminatedBlock == tokens[1] = LEFT_BRACE /\ Unclosed(1, 1)

\* every declaration from token p to EOF, inside the open blocks, parses
\* without a ParseError
RECURSIVE BodyParses(_), BodyGoesOn(_)
BodyGoesOn(d) == d.ok /\ BodyParses(d.pos)
BodyParses(p) ==
    IF is_at_end(p) THEN TRUE
    ELSE IF check(p, LEFT_BRACE) /\ Unclosed(p + 1, 1) THEN BodyParses(p + 1)
    ELSE BodyGoesOn(declaration(p))

\* C9 as stated: whenever EOF is reached before the closing '}' of a block,
\* an "expect '}' after" error is reported and no Block node is returned
\* for that block.
C9_UnterminatedReported ==
    (Done /\ UnterminatedBlock) =>
        \E i \in 1..Len(errors) : errors[i].msg = "expect '}' after"

\* C9 amended: whenever EOF is reached before the closing '}' of a block,
\* a ParseError is reported before any statement is returned, so no Block
\* node is returned for that block, and parse returns; the error is "expect
\* '}' after" when the declarations inside the block parse up to EOF, and
\* otherwise it is the ParseError of the first declaration that fails.
C9_UnterminatedRaises ==
    UnterminatedBlock =>
        /\ statements # <<>> => errors # <<>>
        /\ Done => errors # <<>>
        /\ (errors # <<>> /\ BodyParses(1)) =>
               (Len(errors) = 1 /\ errors[1].msg = "expect '}' after")
        /\ (errors # <<>> /\ ~BodyParses(1)) => errors[1].msg # "expect '}' after"

\* { print 1; was parsed: the error is reported at EOF
C9_Witness ==
    /\ Done
    /\ tokens = <<LEFT_BRACE, PRINT, NUMBER, SEMICOLON, EOF>>
    /\ Len(errors) = 1
    /\ errors[1].msg = "expect '}' after"
    /\ statements = <<>>

\* C10 as stated: each time synchronize() returns, the cursor is strictly
\* greater than the position at which the ParseError was raised.
C10_SyncDiscards == pc = "report" => current > raisedAt

\* C10 amended: each time synchronize() returns, the cursor is strictly
\* greater than the position at which the ParseError was raised, unless it
\* was raised with the cursor on the EOF token; then the cursor stays on it.
C10_SyncDiscardsUnlessEof ==
    pc = "report" =>
        IF is_at_end(raisedAt) THEN current = raisedAt ELSE current > raisedAt

\* synchronize() returned right after its first advance
C10_Witness ==
    pc = "report" /\ ~is_at_end(raisedAt) /\ current = raisedAt + 1

====
